---- MODULE Spec2Model ----
(***************************************************************************)
(* Model of the financial engine of fiber-build-analyzer:                  *)
(*   - the IRR solver (npv, npvDerivative, solveIrr, solveIrrBisection),    *)
(*     src/src/engine/bulkAnalyzer.ts lines 4-99 (the same code is in      *)
(*     src/src/lib/irrModel.ts lines 23-140);                              *)
(*   - analyzeBulkDeal, src/src/engine/bulkAnalyzer.ts lines 186-415.      *)
(*                                                                         *)
(* Numbers.  The code computes with IEEE doubles.  The solver is modelled  *)
(* with a decimal floating-point number of Digits significant digits       *)
(* (mantissa m, exponent e, value m * 10^e) with the special values        *)
(* Infinity, -Infinity and NaN.  The deal model is modelled with exact     *)
(* rationals n/d (d = 0 carries Infinity and NaN), which is what the       *)
(* doubles compute for the small whole-number inputs the model draws.      *)
(***************************************************************************)
EXTENDS Integers, Naturals, Sequences, FiniteSets, TLC

(***************************************************************************)
(* Integer helpers                                                         *)
(***************************************************************************)
Abs(n) == IF n < 0 THEN -n ELSE n

Sign(n) == IF n < 0 THEN -1 ELSE IF n > 0 THEN 1 ELSE 0

\* the quotient truncated toward zero (b > 0)
Quot(a, b) == Sign(a) * (Abs(a) \div b)

RECURSIVE Pow10(_)
Pow10(k) == IF k <= 0 THEN 1 ELSE 10 * Pow10(k - 1)

RECURSIVE Gcd(_, _)
Gcd(a, b) == IF b = 0 THEN a ELSE Gcd(b, a % b)

(***************************************************************************)
(* Floating-point numbers of the solver                                    *)
(***************************************************************************)
\* significant decimal digits kept by the model's floating-point numbers
Digits == 8

MantLo == Pow10(Digits - 1)

MantHi == Pow10(Digits)

HalfBase == Pow10(Digits \div 2)

Fin(m, e) == [k |-> "fin", m |-> m, e |-> e]

FZero == Fin(0, 0)

FInf(s) == [k |-> "inf", m |-> s, e |-> 0]

FNaN == [k |-> "nan", m |-> 0, e |-> 0]

isNaN(x) == x.k = "nan"

isFinite(x) == x.k = "fin"

\* the number m * 10^e with its mantissa brought to Digits digits (truncating)
RECURSIVE NormF(_, _)
NormF(m, e) ==
    IF m = 0 THEN FZero
    ELSE IF Abs(m) >= MantHi THEN NormF(Quot(m, 10), e + 1)
    ELSE IF Abs(m) < MantLo THEN NormF(m * 10, e - 1)
    ELSE Fin(m, e)

FromInt(n) == NormF(n, 0)

FSign(x) == Sign(x.m)

FNeg(x) == [x EXCEPT !.m = -x.m]

FAbs(x) == [x EXCEPT !.m = Abs(x.m)]

\* a + b for finite a, b with a.e >= b.e, one guard digit kept
AddAligned(a, b) ==
    LET d == a.e - b.e
    IN  IF d > Digits + 1 THEN a
        ELSE NormF(a.m * 10 + Quot(b.m * 10, Pow10(d)), a.e - 1)

FAdd(a, b) ==
    IF isNaN(a) \/ isNaN(b) THEN FNaN
    ELSE IF a.k = "inf" /\ b.k = "inf" THEN (IF a.m = b.m THEN a ELSE FNaN)
    ELSE IF a.k = "inf" THEN a
    ELSE IF b.k = "inf" THEN b
    ELSE IF a.m = 0 THEN b
    ELSE IF b.m = 0 THEN a
    ELSE IF a.e >= b.e THEN AddAligned(a, b) ELSE AddAligned(b, a)

FSub(a, b) == FAdd(a, FNeg(b))

\* the leading digits of the product of two Digits-digit mantissas
MulMant(A, B) ==
    LET a1 == A \div HalfBase
        a0 == A % HalfBase
        b1 == B \div HalfBase
        b0 == B % HalfBase
    IN  (a1 * b1) * 10 + ((a1 * b0 + a0 * b1) + (a0 * b0) \div HalfBase) \div (HalfBase \div 10)

FMul(a, b) ==
    IF isNaN(a) \/ isNaN(b) THEN FNaN
    ELSE IF a.k = "inf" \/ b.k = "inf"
         THEN (IF a.m = 0 \/ b.m = 0 THEN FNaN ELSE FInf(Sign(a.m) * Sign(b.m)))
    ELSE IF a.m = 0 \/ b.m = 0 THEN FZero
    ELSE NormF(Sign(a.m) * Sign(b.m) * MulMant(Abs(a.m), Abs(b.m)),
               a.e + b.e + (Digits - 1))

\* long division: k more decimal digits of the quotient q with remainder r
RECURSIVE LongDiv(_, _, _, _)
LongDiv(q, r, B, k) ==
    IF k = 0 THEN q
    ELSE LongDiv(q * 10 + (r * 10) \div B, (r * 10) % B, B, k - 1)

FDiv(a, b) ==
    IF isNaN(a) \/ isNaN(b) THEN FNaN
    ELSE IF a.k = "inf" THEN (IF b.k = "inf" THEN FNaN
                              ELSE FInf(a.m * (IF b.m < 0 THEN -1 ELSE 1)))
    ELSE IF b.k = "inf" THEN FZero
    ELSE IF b.m = 0 THEN (IF a.m = 0 THEN FNaN ELSE FInf(Sign(a.m)))
    ELSE IF a.m = 0 THEN FZero
    ELSE NormF(Sign(a.m) * Sign(b.m)
                 * LongDiv(Abs(a.m) \div Abs(b.m), Abs(a.m) % Abs(b.m), Abs(b.m), Digits),
               a.e - b.e - Digits)

\* the comparisons of doubles: every comparison with NaN is false
FLt(a, b) == ~isNaN(a) /\ ~isNaN(b) /\ a # b /\ FSign(FSub(a, b)) < 0

FGt(a, b) == FLt(b, a)

\* Math.pow(x, i) for a whole exponent i >= 0
RECURSIVE MathPow(_, _)
MathPow(x, i) == IF i = 0 THEN FromInt(1) ELSE FMul(x, MathPow(x, i - 1))

\* the literal n / 10^k
Dec(n, k) == NormF(n, -k)

(***************************************************************************)
(* IRR solver: npv, npvDerivative, solveIrr, solveIrrBisection             *)
(***************************************************************************)
\* bound on the length of the series handed to the solver directly
MaxLen == 3

\* bound on the magnitude of the entries of those series
MaxCash == 2

maxIterations == 100

tolerance == Dec(1, 6)

\* a floor of the derivative of 1 instead of 1e-10
derivativeFloorOfOne == Dec(1, 0)

derivativeFloor == Dec(1, 10)

\* npv: the sum over i of cashFlows[i] / (1 + rate)^i, accumulated from i = 0
RECURSIVE NpvFrom(_, _, _, _)
NpvFrom(cashFlows, rate, i, sum) ==
    IF i >= Len(cashFlows) THEN sum
    ELSE NpvFrom(cashFlows, rate, i + 1,
                 FAdd(sum, FDiv(cashFlows[i + 1], MathPow(FAdd(FromInt(1), rate), i))))

npv(cashFlows, rate) == NpvFrom(cashFlows, rate, 0, FZero)

\* npvDerivative: sum -= (i * cashFlows[i]) / (1 + rate)^(i + 1)
RECURSIVE NpvDerivativeFrom(_, _, _, _)
NpvDerivativeFrom(cashFlows, rate, i, sum) ==
    IF i >= Len(cashFlows) THEN sum
    ELSE NpvDerivativeFrom(cashFlows, rate, i + 1,
                 FSub(sum, FDiv(FMul(FromInt(i), cashFlows[i + 1]),
                                MathPow(FAdd(FromInt(1), rate), i + 1))))

npvDerivative(cashFlows, rate) == NpvDerivativeFrom(cashFlows, rate, 0, FZero)

\* a check that rejects only two positive values
SameSignPositive(a, b) == FGt(a, FZero) /\ FGt(b, FZero)

\* (a > 0 && b > 0) || (a < 0 && b < 0)
SameSign(a, b) ==
    \/ FGt(a, FZero) /\ FGt(b, FZero)
    \/ FLt(a, FZero) /\ FLt(b, FZero)

\* A call of the solver.  fn is the function called, pc the position in it:
\*   "solveIrr"  at the entry of solveIrr (before the feasibility check),
\*   "newton"    at the head of the Newton loop, i iterations done,
\*   "solveIrrBisection" at the entry of solveIrrBisection,
\*   "bisect"    at the head of the bisection loop, j iterations done,
\*   "done"      returned; ret is "null" or "rate" and result the rate.
\* via records why solveIrr handed over to solveIrrBisection.
SolverCall(fn, cashFlows) ==
    [fn |-> fn, pc |-> fn, cashFlows |-> cashFlows,
     rate |-> Dec(1, 1), i |-> 0,
     low |-> Dec(-99, 2), high |-> FromInt(10), j |-> 0,
     via |-> IF fn = "solveIrr" THEN "none" ELSE "direct",
     ret |-> "none", result |-> FZero]

ReturnNull(s) == [s EXCEPT !.pc = "done", !.ret = "null"]

ReturnRate(s, r) == [s EXCEPT !.pc = "done", !.ret = "rate", !.result = r]

CallBisection(s, why) == [s EXCEPT !.pc = "solveIrrBisection", !.via = why]

\* solveIrr up to the loop: the feasibility check and the starting rate
SolveIrrEntry(s) ==
    LET npvAtZero == npv(s.cashFlows, FZero)
        npvAtHigh == npv(s.cashFlows, FromInt(10))
    IN  IF SameSign(npvAtZero, npvAtHigh) THEN ReturnNull(s)
        ELSE [s EXCEPT !.pc = "newton",
                       !.rate = IF FLt(npvAtZero, FZero) THEN Dec(-5, 1) ELSE Dec(1, 1)]

\* a Newton loop that counts no iterations and so has no cap
NewtonStepUncapped(s) ==
    LET npvValue == npv(s.cashFlows, s.rate)
        derivative == npvDerivative(s.cashFlows, s.rate)
        newRate == FSub(s.rate, FDiv(npvValue, derivative))
    IN  IF FLt(FAbs(derivative), derivativeFloor) THEN CallBisection(s, "flat")
        ELSE IF FLt(FAbs(FSub(newRate, s.rate)), tolerance) THEN ReturnRate(s, newRate)
        ELSE IF FGt(FAbs(newRate), FromInt(10)) \/ isNaN(newRate) \/ ~isFinite(newRate)
             THEN CallBisection(s, "diverged")
        ELSE [s EXCEPT !.rate = newRate]

\* one pass of the body of the Newton loop of solveIrr
NewtonStep(s) ==
    LET npvValue == npv(s.cashFlows, s.rate)
        derivative == npvDerivative(s.cashFlows, s.rate)
        newRate == FSub(s.rate, FDiv(npvValue, derivative))
    IN  IF FLt(FAbs(derivative), derivativeFloor) THEN CallBisection(s, "flat")
        ELSE IF FLt(FAbs(FSub(newRate, s.rate)), tolerance) THEN ReturnRate(s, newRate)
        ELSE IF FGt(FAbs(newRate), FromInt(10)) \/ isNaN(newRate) \/ ~isFinite(newRate)
             THEN CallBisection(s, "diverged")
        ELSE IF s.i + 1 < maxIterations
             THEN [s EXCEPT !.rate = newRate, !.i = s.i + 1]
        ELSE CallBisection([s EXCEPT !.rate = newRate, !.i = s.i + 1], "exhausted")

\* solveIrrBisection up to the loop: the two checks at the bounds
BisectionEntry(s) ==
    LET low == Dec(-99, 2)
        high == FromInt(10)
        npvLow == npv(s.cashFlows, low)
        npvHigh == npv(s.cashFlows, high)
    IN  IF SameSign(npvLow, npvHigh) THEN ReturnNull(s)
        ELSE IF FGt(npvLow, FZero) THEN ReturnNull(s)
        ELSE [s EXCEPT !.pc = "bisect", !.low = low, !.high = high, !.j = 0]

\* a bisection loop without the test of the width of the bracket
BisectionStepWithoutWidthTest(s) ==
    LET mid == FDiv(FAdd(s.low, s.high), FromInt(2))
        npvMid == npv(s.cashFlows, mid)
        high == IF FGt(npvMid, FZero) THEN mid ELSE s.high
        low == IF FGt(npvMid, FZero) THEN s.low ELSE mid
    IN  IF FLt(FAbs(npvMid), tolerance) THEN ReturnRate([s EXCEPT !.j = s.j + 1], mid)
        ELSE IF s.j + 1 < maxIterations
             THEN [s EXCEPT !.low = low, !.high = high, !.j = s.j + 1]
        ELSE ReturnNull([s EXCEPT !.low = low, !.high = high, !.j = s.j + 1])

\* one pass of the body of the loop of solveIrrBisection
BisectionStep(s) ==
    LET mid == FDiv(FAdd(s.low, s.high), FromInt(2))
        npvMid == npv(s.cashFlows, mid)
        high == IF FGt(npvMid, FZero) THEN mid ELSE s.high
        low == IF FGt(npvMid, FZero) THEN s.low ELSE mid
    IN  IF FLt(FAbs(npvMid), tolerance) THEN ReturnRate([s EXCEPT !.j = s.j + 1], mid)
        ELSE IF FLt(FAbs(FSub(high, low)), tolerance)
             THEN ReturnRate([s EXCEPT !.low = low, !.high = high, !.j = s.j + 1],
                             FDiv(FAdd(low, high), FromInt(2)))
        ELSE IF s.j + 1 < maxIterations
             THEN [s EXCEPT !.low = low, !.high = high, !.j = s.j + 1]
        ELSE ReturnNull([s EXCEPT !.low = low, !.high = high, !.j = s.j + 1])

SolverStep(s) ==
    CASE s.pc = "solveIrr" -> SolveIrrEntry(s)
      [] s.pc = "newton" -> NewtonStep(s)
      [] s.pc = "solveIrrBisection" -> BisectionEntry(s)
      [] s.pc = "bisect" -> BisectionStep(s)
      [] OTHER -> s

RECURSIVE RunSolver(_)
RunSolver(s) == IF s.pc = "done" THEN s ELSE RunSolver(SolverStep(s))

\* solveIrr(cashFlows) as a value: the returned call record
solveIrr(cashFlows) == RunSolver(SolverCall("solveIrr", cashFlows))

\* the series of whole numbers of a given length
RECURSIVE SeriesOfLen(_)
SeriesOfLen(n) ==
    IF n = 0 THEN {<<>>}
    ELSE {Append(c, FromInt(x)) : c \in SeriesOfLen(n - 1), x \in -MaxCash..MaxCash}

SolverSeries == UNION {SeriesOfLen(n) : n \in 1..MaxLen}

\* longer series, on which the Newton loop leaves the searched domain, diverges
\* or runs out of iterations
ProbeSeries ==
    {[k \in 1..Len(q) |-> FromInt(q[k])] :
        q \in {<<-1, 3, 2, -3>>, <<1, -3, -2, 1>>, <<1, -5, 4, -1>>, <<-1, 5, -3>>,
               <<2, -10, 2, 1, 2, -1>>, <<6, -41, 29, 50, -45>>}}

(***************************************************************************)
(* Exact rationals of the deal model: n/d, d > 0 in lowest terms; d = 0    *)
(* carries Infinity (n = 1), -Infinity (n = -1) and NaN (n = 0), as the    *)
(* division of doubles produces them.                                      *)
(***************************************************************************)
RNorm(n, d) ==
    IF d = 0 THEN [n |-> Sign(n), d |-> 0]
    ELSE LET g == Gcd(Abs(n), Abs(d))
         IN  [n |-> Sign(d) * (n \div g), d |-> Abs(d) \div g]

R(n) == [n |-> n, d |-> 1]

RInfinity == [n |-> 1, d |-> 0]

RIsNaN(a) == a.d = 0 /\ a.n = 0

RIsFinite(a) == a.d # 0

RAdd(a, b) ==
    IF a.d = 0 /\ b.d = 0 /\ a.n = b.n THEN a
    ELSE IF a.d = 0 \/ b.d = 0 THEN RNorm(a.n * b.d + b.n * a.d, 0)
    ELSE LET g == Gcd(a.d, b.d)
         IN  RNorm(a.n * (b.d \div g) + b.n * (a.d \div g), (a.d \div g) * b.d)

RNeg(a) == [n |-> -a.n, d |-> a.d]

RSub(a, b) == RAdd(a, RNeg(b))

RMul(a, b) == RNorm(a.n * b.n, a.d * b.d)

RDiv(a, b) == RNorm(a.n * b.d * (IF b.n < 0 THEN -1 ELSE 1), a.d * Abs(b.n))

\* a < b as doubles compare: false when either is NaN
RLt(a, b) ==
    /\ ~RIsNaN(a) /\ ~RIsNaN(b) /\ a # b
    /\ IF a.d = 0 THEN a.n < 0
       ELSE IF b.d = 0 THEN b.n > 0
       ELSE RAdd(a, [n |-> -b.n, d |-> b.d]).n < 0

RGt(a, b) == RLt(b, a)

RGe(a, b) == ~RIsNaN(a) /\ ~RIsNaN(b) /\ ~RLt(a, b)

RLe(a, b) == RGe(b, a)

\* Math.max: NaN when either is NaN
RMax(a, b) ==
    IF RIsNaN(a) THEN a
    ELSE IF RIsNaN(b) THEN b
    ELSE IF RGt(b, a) THEN b ELSE a

\* the double nearest a rational, in the solver's numbers
ToFloat(a) ==
    IF a.d = 0 THEN (IF a.n = 0 THEN FNaN ELSE FInf(a.n))
    ELSE FDiv(FromInt(a.n), FromInt(a.d))

RECURSIVE RSum(_)
RSum(seq) == IF seq = <<>> THEN R(0) ELSE RAdd(RSum(SubSeq(seq, 1, Len(seq) - 1)), seq[Len(seq)])

RECURSIVE RPow(_, _)
RPow(a, k) == IF k = 0 THEN R(1) ELSE RMul(a, RPow(a, k - 1))

(***************************************************************************)
(* analyzeBulkDeal                                                         *)
(***************************************************************************)
\* bounds of the inputs drawn for analyzeBulkDeal
MaxUnits == 2

MaxTermYears == 2

monthsInYear == 12

\* a milestone month that was never set
null == 0

VARIABLES
    input,                 \* the BulkDealInput of the call
    pc,                    \* "walk": in the yearly loop; "done": returned
    year, month,           \* the loop counters of the yearly cash-flow loop
    globalMonth,
    cumulativeDaReceived,
    daPaymentThisYear, revenueThisYear,
    cashFlowsDA, cashFlowsSprocket,
    \* the locals of the last executed pass of the monthly loop body
    leaseUpMultiplier, revenueThisMonth, daPaymentRate, daPaymentThisMonth,
    cumulativeAtStart,     \* cumulativeDaReceived when that pass began
    firstReached,          \* first month after which the cumulative was >= each threshold
    result,                \* the BulkDealResult, once returned
    calls,                 \* the calls that returned before this one: input and result
    solver,                \* a direct call of the solver
    compute                \* a call of computeIrr: its inputs, locals and position

dealVars == <<input, pc, year, month, globalMonth, cumulativeDaReceived,
              daPaymentThisYear, revenueThisYear, cashFlowsDA, cashFlowsSprocket,
              leaseUpMultiplier, revenueThisMonth, daPaymentRate, daPaymentThisMonth,
              cumulativeAtStart, firstReached, result, calls>>

vars == <<dealVars, solver, compute>>

\* a capex per unit that leaves the door fee out
capexPerUnitWithoutDoorFee(inp) ==
    inp.buildCostPerUnit + inp.cpeCostPerUnit + inp.installCostPerUnit

capexPerUnit(inp) ==
    inp.buildCostPerUnit + inp.cpeCostPerUnit + inp.installCostPerUnit + inp.doorFeePerUnit

totalCapex(inp) == R(inp.units * capexPerUnit(inp))

\* a loan payment that ignores the interest
calculateMonthlyPaymentNoInterest(principal, annualRate, termYears) ==
    IF principal = R(0) \/ termYears = 0 THEN R(0)
    ELSE RDiv(principal, R(termYears * 12))

\* calculateMonthlyPayment: the level payment of a loan (PMT)
calculateMonthlyPayment(principal, annualRate, termYears) ==
    IF principal = R(0) \/ termYears = 0 THEN R(0)
    ELSE LET monthlyRate == RDiv(annualRate, R(12))
             numPayments == termYears * 12
             growth == RPow(RAdd(R(1), monthlyRate), numPayments)
         IN  IF monthlyRate = R(0) THEN RDiv(principal, R(numPayments))
             ELSE RDiv(RMul(principal, RMul(monthlyRate, growth)), RSub(growth, R(1)))

daRevenueShareEnabled(inp) == inp.fundingSource = "da"

rateDiscountPerUnit(inp) ==
    IF inp.fundingSource = "owner"
    THEN LET monthlyLoanPayment ==
                 calculateMonthlyPayment(totalCapex(inp), inp.ownerLoanInterestRate, inp.termYears)
         IN  IF inp.units > 0 THEN RDiv(monthlyLoanPayment, R(inp.units)) ELSE R(0)
    ELSE R(0)

adjustedBulkRatePerUnit(inp) ==
    IF inp.fundingSource = "owner"
    THEN RMax(R(0), RSub(R(inp.bulkRatePerUnit), rateDiscountPerUnit(inp)))
    ELSE R(inp.bulkRatePerUnit)

grossRevenuePerMonth(inp) == RMul(R(inp.units), adjustedBulkRatePerUnit(inp))

baseDaPaymentPerMonth(inp) ==
    IF daRevenueShareEnabled(inp)
    THEN RMul(R(inp.units), inp.daBulkFeePerUnitPerMonth)
    ELSE R(0)

supportOpexPerMonth(inp) == R(inp.units * inp.supportOpexPerUnitPerMonth)

\* an opex without the transport
totalOpexPerMonthSupportOnly(inp) == supportOpexPerMonth(inp)

totalOpexPerMonth(inp) == RAdd(supportOpexPerMonth(inp), R(inp.transportOpexPerMonth))

\* an investment booked to the DA under every funding source
daInvestmentOfAnyFunding(inp) == totalCapex(inp)

daInvestment(inp) == IF daRevenueShareEnabled(inp) THEN totalCapex(inp) ELSE R(0)

moic2x(inp) == RMul(daInvestment(inp), R(2))

moic2_5x(inp) == RMul(daInvestment(inp), RNorm(5, 2))

moic3x(inp) == RMul(daInvestment(inp), R(3))

\* a lease-up that applies to every construction type
leaseUpMonthsOfAnyType(inp) == inp.leaseUpMonths

leaseUpMonths(inp) == IF inp.constructionType = "greenfield" THEN inp.leaseUpMonths ELSE 0

\* a ramp that starts at 0% in month 1
LeaseUpMultiplierFromZero(inp, gm) ==
    IF leaseUpMonths(inp) > 0 /\ gm <= leaseUpMonths(inp)
    THEN RNorm(gm - 1, leaseUpMonths(inp))
    ELSE R(1)

\* the lease-up multiplier of month gm, counted from project start
LeaseUpMultiplier(inp, gm) ==
    IF leaseUpMonths(inp) > 0 /\ gm <= leaseUpMonths(inp)
    THEN RNorm(gm, leaseUpMonths(inp))
    ELSE R(1)

\* a yearly loop with the rates of the two middle tiers swapped
DaPaymentRateTiersSwapped(inp, cumulative) ==
    IF daRevenueShareEnabled(inp)
    THEN IF RGe(cumulative, moic3x(inp)) THEN R(0)
         ELSE IF RGe(cumulative, moic2_5x(inp)) THEN RNorm(1, 2)
         ELSE IF RGe(cumulative, moic2x(inp)) THEN RNorm(1, 4)
         ELSE R(1)
    ELSE R(0)

\* a yearly loop whose tiers start only above their thresholds
DaPaymentRateAboveThreshold(inp, cumulative) ==
    IF daRevenueShareEnabled(inp)
    THEN IF RGt(cumulative, moic3x(inp)) THEN R(0)
         ELSE IF RGt(cumulative, moic2_5x(inp)) THEN RNorm(1, 4)
         ELSE IF RGt(cumulative, moic2x(inp)) THEN RNorm(1, 2)
         ELSE R(1)
    ELSE R(0)

\* the payment rate of the yearly loop, chosen from the cumulative receipts so far
DaPaymentRate(inp, cumulative) ==
    IF daRevenueShareEnabled(inp)
    THEN IF RGe(cumulative, moic3x(inp)) THEN R(0)
         ELSE IF RGe(cumulative, moic2_5x(inp)) THEN RNorm(1, 4)
         ELSE IF RGe(cumulative, moic2x(inp)) THEN RNorm(1, 2)
         ELSE R(1)
    ELSE R(0)

\* the fee of one month of the yearly loop
DaPaymentThisMonth(inp, rate) == RMul(baseDaPaymentPerMonth(inp), rate)

\* a milestone walk that never reduces the payment
CurrentPaymentRateFull(inp, cumulative) == R(1)

\* the payment rate of the milestone walk
CurrentPaymentRate(inp, cumulative) ==
    IF RGe(cumulative, moic3x(inp)) THEN R(0)
    ELSE IF RGe(cumulative, moic2_5x(inp)) THEN RNorm(1, 4)
    ELSE IF RGe(cumulative, moic2x(inp)) THEN RNorm(1, 2)
    ELSE R(1)

NoMilestones == [moic2xMonth |-> null, moic2_5xMonth |-> null, moic3xMonth |-> null]

\* milestones whose 2.0x month is set by every month at or above the threshold
MilestonesOverwritten(inp, w, cumulative, gm) ==
    [moic2xMonth |-> IF RGe(cumulative, moic2x(inp)) THEN gm ELSE w.moic2xMonth,
     moic2_5xMonth |-> IF w.moic2_5xMonth = null /\ RGe(cumulative, moic2_5x(inp))
                       THEN gm ELSE w.moic2_5xMonth,
     moic3xMonth |-> IF w.moic3xMonth = null /\ RGe(cumulative, moic3x(inp))
                     THEN gm ELSE w.moic3xMonth]

\* a milestone is set once, by the first month whose cumulative reaches its threshold
Milestones(inp, w, cumulative, gm) ==
    [moic2xMonth |-> IF w.moic2xMonth = null /\ RGe(cumulative, moic2x(inp))
                     THEN gm ELSE w.moic2xMonth,
     moic2_5xMonth |-> IF w.moic2_5xMonth = null /\ RGe(cumulative, moic2_5x(inp))
                       THEN gm ELSE w.moic2_5xMonth,
     moic3xMonth |-> IF w.moic3xMonth = null /\ RGe(cumulative, moic3x(inp))
                     THEN gm ELSE w.moic3xMonth]

\* the second month-by-month walk, from month globalMonth2 on; it stops at 3x
RECURSIVE MilestoneWalk(_, _, _, _)
MilestoneWalk(inp, globalMonth2, cumulativeDaReceived2, w) ==
    IF globalMonth2 >= inp.termYears * monthsInYear \/ w.moic3xMonth # null THEN w
    ELSE LET cumulative == RAdd(cumulativeDaReceived2,
                                RMul(baseDaPaymentPerMonth(inp),
                                     CurrentPaymentRate(inp, cumulativeDaReceived2)))
         IN  MilestoneWalk(inp, globalMonth2 + 1, cumulative,
                           Milestones(inp, w, cumulative, globalMonth2 + 1))

daWaterfall(inp) ==
    LET w == IF daRevenueShareEnabled(inp) THEN MilestoneWalk(inp, 0, R(0), NoMilestones)
             ELSE NoMilestones
    IN  [moic2xMonth |-> w.moic2xMonth,
         moic2_5xMonth |-> w.moic2_5xMonth,
         moic3xMonth |-> w.moic3xMonth,
         moic2xAmount |-> moic2x(inp),
         moic2_5xAmount |-> moic2_5x(inp),
         moic3xAmount |-> moic3x(inp)]

\* an average over the years of the term instead of its months
averageDaPaymentPerYear(inp, cfDA) ==
    RDiv(RSum(Tail(cfDA)), R(inp.termYears))

averageDaPaymentPerMonth(inp, cfDA) ==
    RDiv(RSum(Tail(cfDA)), R(inp.termYears * 12))

averageNetCashFlowPerYear(inp, cfSprocket) ==
    RDiv(RSum(Tail(cfSprocket)), R(inp.termYears))

\* a payback computed without the test on the sign of the average
paybackYearsUnguarded(inp, cfSprocket) ==
    RDiv(totalCapex(inp), averageNetCashFlowPerYear(inp, cfSprocket))

paybackYears(inp, cfSprocket) ==
    IF RGt(averageNetCashFlowPerYear(inp, cfSprocket), R(0))
    THEN RDiv(totalCapex(inp), averageNetCashFlowPerYear(inp, cfSprocket))
    ELSE RInfinity

ocfYield(inp, cfSprocket) ==
    IF RGt(totalCapex(inp), R(0))
    THEN RDiv(averageNetCashFlowPerYear(inp, cfSprocket), totalCapex(inp))
    ELSE R(0)

\* the IRR of a series of the deal: null, or the rate
Irr(cf) ==
    LET s == solveIrr([i \in 1..Len(cf) |-> ToFloat(cf[i])])
    IN  [ret |-> s.ret, rate |-> s.result]

yearlyCashFlows(inp, cfDA, cfSprocket) ==
    [y \in 1..inp.termYears |->
        [year |-> y,
         providerCashFlow |-> cfSprocket[y + 1],
         ownerCashFlow |-> RAdd(cfSprocket[y + 1], cfDA[y + 1]),
         daPayment |-> cfDA[y + 1]]]

\* the record analyzeBulkDeal returns
BulkDealResult(inp, cfDA, cfSprocket) ==
    [capexPerUnit |-> capexPerUnit(inp),
     totalCapex |-> totalCapex(inp),
     grossRevenuePerMonth |-> grossRevenuePerMonth(inp),
     daPaymentPerMonth |-> averageDaPaymentPerMonth(inp, cfDA),
     daPaymentInitial |-> baseDaPaymentPerMonth(inp),
     supportOpexPerMonth |-> supportOpexPerMonth(inp),
     transportOpexPerMonth |-> R(inp.transportOpexPerMonth),
     totalOpexPerMonth |-> totalOpexPerMonth(inp),
     netCashFlowPerMonth |-> RDiv(averageNetCashFlowPerYear(inp, cfSprocket), R(12)),
     netCashFlowPerYear |-> averageNetCashFlowPerYear(inp, cfSprocket),
     paybackYears |-> paybackYears(inp, cfSprocket),
     ocfYield |-> ocfYield(inp, cfSprocket),
     irr |-> Irr(cfDA),
     sprocketIrr |-> Irr(cfSprocket),
     yearlyCashFlows |-> yearlyCashFlows(inp, cfDA, cfSprocket),
     daWaterfall |-> daWaterfall(inp)]

\* the flat-fee analyzeBulkDeal, the first version of the engine: one fee for every
\* month, no funding source, no lease-up, no waterfall
analyzeBulkDealFlat(inp) ==
    LET capexPerUnit1 == inp.buildCostPerUnit + inp.cpeCostPerUnit
                             + inp.installCostPerUnit + inp.doorFeePerUnit
        totalCapex1 == R(inp.units * capexPerUnit1)
        grossRevenuePerMonth1 == R(inp.units * inp.bulkRatePerUnit)
        daPaymentPerMonth1 == RMul(R(inp.units), inp.daBulkFeePerUnitPerMonth)
        supportOpexPerMonth1 == R(inp.units * inp.supportOpexPerUnitPerMonth)
        transportOpexPerMonth1 == R(inp.transportOpexPerMonth)
        totalOpexPerMonth1 == RAdd(supportOpexPerMonth1, transportOpexPerMonth1)
        netCashFlowPerMonth1 ==
            RSub(RSub(grossRevenuePerMonth1, daPaymentPerMonth1), totalOpexPerMonth1)
        netCashFlowPerYear1 == RMul(netCashFlowPerMonth1, R(12))
        cashFlows1 == <<RNeg(totalCapex1)>> \o [y \in 1..inp.termYears |-> netCashFlowPerYear1]
        netCashFlowPerYearWithoutDA ==
            RMul(RSub(grossRevenuePerMonth1, totalOpexPerMonth1), R(12))
        cashFlowsWithoutDA ==
            <<RNeg(totalCapex1)>> \o [y \in 1..inp.termYears |-> netCashFlowPerYearWithoutDA]
    IN  [capexPerUnit |-> capexPerUnit1,
         totalCapex |-> totalCapex1,
         grossRevenuePerMonth |-> grossRevenuePerMonth1,
         daPaymentPerMonth |-> daPaymentPerMonth1,
         supportOpexPerMonth |-> supportOpexPerMonth1,
         transportOpexPerMonth |-> transportOpexPerMonth1,
         totalOpexPerMonth |-> totalOpexPerMonth1,
         netCashFlowPerMonth |-> netCashFlowPerMonth1,
         netCashFlowPerYear |-> netCashFlowPerYear1,
         paybackYears |-> RDiv(totalCapex1, netCashFlowPerYear1),
         ocfYield |-> RDiv(netCashFlowPerYear1, totalCapex1),
         irr |-> Irr(cashFlows1),
         irrWithoutDA |-> Irr(cashFlowsWithoutDA)]

(***************************************************************************)
(* The calls                                                               *)
(***************************************************************************)
\* the inputs drawn: build, CPE, install and door cost per unit
CostChoices == {<<0, 0, 0, 0>>, <<1, 0, 0, 0>>, <<0, 1, 1, 1>>}

\* bulk rate per unit, support opex per unit per month, transport opex per month
EconomicsChoices == {<<0, 0, 0>>, <<1, 1, 0>>, <<3, 0, 1>>}

\* DA bulk fee per unit per month
FeeChoices == {R(0), RNorm(1, 6), R(1), R(2), R(4)}

\* lease-up months: none, and a ramp that runs into the second year
LeaseUpChoices == {0, monthsInYear + 2}

\* owner loan interest rate: none, and 1200% a year (100% a month, which keeps the
\* compounding in whole numbers) for owner-funded deals of at most one year
InterestChoices(fs, t) == IF fs = "owner" /\ t <= 1 THEN {R(0), R(12)} ELSE {R(0)}

BulkDealInputs ==
    UNION {{[propertyName |-> "p",
             units |-> u,
             constructionType |-> ct,
             termYears |-> t,
             bulkRatePerUnit |-> e[1],
             buildCostPerUnit |-> c[1],
             cpeCostPerUnit |-> c[2],
             installCostPerUnit |-> c[3],
             doorFeePerUnit |-> c[4],
             supportOpexPerUnitPerMonth |-> e[2],
             transportOpexPerMonth |-> e[3],
             daBulkFeePerUnitPerMonth |-> f,
             leaseUpMonths |-> lu,
             fundingSource |-> fs,
             ownerLoanInterestRate |-> r] :
               u \in 0..MaxUnits,
               ct \in {"greenfield", "brownfield"}, lu \in LeaseUpChoices,
               c \in CostChoices, e \in EconomicsChoices, f \in FeeChoices,
               r \in InterestChoices(fs, t)} :
           fs \in {"da", "owner", "internal"}, t \in 0..MaxTermYears}

NoInput == [units |-> 0]

NoResult == [capexPerUnit |-> 0]

NoSolver == [pc |-> "idle"]

NoCompute == [pc |-> "idle"]

\* a receipts counter that lives on between calls
StartingReceiptsCarried(left) == left

\* the receipts counter at the start of a call, whatever the call before left in
\* it: cumulativeDaReceived is a local, set to 0
StartingReceipts(left) == R(0)

\* analyzeBulkDeal(inp) at the head of its yearly loop
DealCall(inp) ==
    /\ input = inp
    /\ pc = "walk"
    /\ year = 1
    /\ month = 1
    /\ globalMonth = 0
    /\ cumulativeDaReceived = StartingReceipts(R(0))
    /\ daPaymentThisYear = R(0)
    /\ revenueThisYear = R(0)
    /\ cashFlowsDA = <<RNeg(daInvestment(inp))>>
    /\ cashFlowsSprocket = <<RNeg(totalCapex(inp))>>
    /\ leaseUpMultiplier = R(1)
    /\ revenueThisMonth = R(0)
    /\ daPaymentRate = R(0)
    /\ daPaymentThisMonth = R(0)
    /\ cumulativeAtStart = R(0)
    /\ firstReached = NoMilestones
    /\ result = NoResult
    /\ calls = <<>>

\* no call of analyzeBulkDeal
NoDealCall ==
    /\ input = NoInput
    /\ pc = "idle"
    /\ year = 1
    /\ month = 1
    /\ globalMonth = 0
    /\ cumulativeDaReceived = R(0)
    /\ daPaymentThisYear = R(0)
    /\ revenueThisYear = R(0)
    /\ cashFlowsDA = <<>>
    /\ cashFlowsSprocket = <<>>
    /\ leaseUpMultiplier = R(1)
    /\ revenueThisMonth = R(0)
    /\ daPaymentRate = R(0)
    /\ daPaymentThisMonth = R(0)
    /\ cumulativeAtStart = R(0)
    /\ firstReached = NoMilestones
    /\ result = NoResult
    /\ calls = <<>>

Init ==
    /\ \E inp \in BulkDealInputs : DealCall(inp)
    /\ solver = NoSolver
    /\ compute = NoCompute

\* one pass of the monthly loop body; the twelfth pass of a year also closes the year
MonthStep ==
    /\ pc = "walk"
    /\ year <= input.termYears
    /\ LET gm == globalMonth + 1
           multiplier == LeaseUpMultiplier(input, gm)
           revenue == RMul(RMul(R(input.units), adjustedBulkRatePerUnit(input)), multiplier)
           rate == DaPaymentRate(input, cumulativeDaReceived)
           payment == DaPaymentThisMonth(input, rate)
           paidThisYear == RAdd(daPaymentThisYear, payment)
           earnedThisYear == RAdd(revenueThisYear, revenue)
           cumulative == RAdd(cumulativeDaReceived, payment)
       IN  /\ globalMonth' = gm
           /\ leaseUpMultiplier' = multiplier
           /\ revenueThisMonth' = revenue
           /\ daPaymentRate' = rate
           /\ daPaymentThisMonth' = payment
           /\ cumulativeAtStart' = cumulativeDaReceived
           /\ cumulativeDaReceived' = cumulative
           /\ firstReached' = Milestones(input, firstReached, cumulative, gm)
           /\ IF month < monthsInYear
              THEN /\ month' = month + 1
                   /\ year' = year
                   /\ daPaymentThisYear' = paidThisYear
                   /\ revenueThisYear' = earnedThisYear
                   /\ UNCHANGED <<cashFlowsDA, cashFlowsSprocket>>
              ELSE /\ month' = 1
                   /\ year' = year + 1
                   /\ daPaymentThisYear' = R(0)
                   /\ revenueThisYear' = R(0)
                   /\ cashFlowsDA' = Append(cashFlowsDA, paidThisYear)
                   /\ cashFlowsSprocket' =
                          Append(cashFlowsSprocket,
                                 RSub(RSub(earnedThisYear, paidThisYear),
                                      RMul(totalOpexPerMonth(input), R(12))))
    /\ UNCHANGED <<input, pc, result, calls, solver, compute>>

\* the rest of analyzeBulkDeal, after the yearly loop
Finish ==
    /\ pc = "walk"
    /\ year > input.termYears
    /\ pc' = "done"
    /\ result' = BulkDealResult(input, cashFlowsDA, cashFlowsSprocket)
    /\ UNCHANGED <<input, year, month, globalMonth, cumulativeDaReceived,
                   daPaymentThisYear, revenueThisYear, cashFlowsDA, cashFlowsSprocket,
                   leaseUpMultiplier, revenueThisMonth, daPaymentRate, daPaymentThisMonth,
                   cumulativeAtStart, firstReached, calls, solver, compute>>

Next == MonthStep \/ Finish

Spec == Init /\ [][Next]_vars

\* the inputs of the call after the first call, of inp: inp with other lease-up months
NextInputs(inp) ==
    {[inp EXCEPT !.leaseUpMonths = lu] : lu \in LeaseUpChoices \ {inp.leaseUpMonths}}

\* analyzeBulkDeal is called again after it returned: a second call with another
\* input, and a third call with the input of the first
CallAgain ==
    /\ pc = "done"
    /\ Len(calls) <= 1
    /\ \E inp \in (IF calls = <<>> THEN NextInputs(input) ELSE {calls[1].input}) :
           /\ input' = inp
           /\ cashFlowsDA' = <<RNeg(daInvestment(inp))>>
           /\ cashFlowsSprocket' = <<RNeg(totalCapex(inp))>>
    /\ calls' = Append(calls, [input |-> input, result |-> result])
    /\ pc' = "walk"
    /\ year' = 1
    /\ month' = 1
    /\ globalMonth' = 0
    /\ cumulativeDaReceived' = StartingReceipts(cumulativeDaReceived)
    /\ daPaymentThisYear' = R(0)
    /\ revenueThisYear' = R(0)
    /\ leaseUpMultiplier' = R(1)
    /\ revenueThisMonth' = R(0)
    /\ daPaymentRate' = R(0)
    /\ daPaymentThisMonth' = R(0)
    /\ cumulativeAtStart' = R(0)
    /\ firstReached' = NoMilestones
    /\ result' = NoResult
    /\ UNCHANGED <<solver, compute>>

NextCalls == MonthStep \/ Finish \/ CallAgain

\* calls of analyzeBulkDeal one after the other
SpecCalls == Init /\ [][NextCalls]_vars

\* direct calls of solveIrr and of solveIrrBisection
InitIrr ==
    /\ NoDealCall
    /\ \E fn \in {"solveIrr", "solveIrrBisection"}, cf \in SolverSeries \cup ProbeSeries :
           solver = SolverCall(fn, cf)
    /\ compute = NoCompute

FeasibilityCheck ==
    /\ solver.pc = "solveIrr"
    /\ solver' = SolveIrrEntry(solver)
    /\ UNCHANGED <<dealVars, compute>>

NewtonIteration ==
    /\ solver.pc = "newton"
    /\ solver' = NewtonStep(solver)
    /\ UNCHANGED <<dealVars, compute>>

BoundsCheck ==
    /\ solver.pc = "solveIrrBisection"
    /\ solver' = BisectionEntry(solver)
    /\ UNCHANGED <<dealVars, compute>>

BisectionIteration ==
    /\ solver.pc = "bisect"
    /\ solver' = BisectionStep(solver)
    /\ UNCHANGED <<dealVars, compute>>

NextIrr == FeasibilityCheck \/ NewtonIteration \/ BoundsCheck \/ BisectionIteration

SpecIrr == InitIrr /\ [][NextIrr]_vars

(***************************************************************************)
(* computeIrr: the per-passing model of irrModel.ts                        *)
(***************************************************************************)
MaxHorizonYears == 4

\* the inputs drawn: cost per passing and drop cost per subscriber
PassingCostChoices == {<<0, 0>>, <<1, 0>>, <<2, 1>>}

\* monthly ARPU and gross margin
MarginChoices == {<<0, R(1)>>, <<1, RNorm(1, 2)>>, <<2, R(1)>>}

\* annual churn rate and reinstall cost per churned subscriber
ChurnChoices == {<<R(0), 0>>, <<RNorm(1, 2), 2>>, <<R(1), 30>>}

\* the fractions of steady-state penetration in year 1 and in year 2
RampChoices == {<<RNorm(1, 4), RNorm(1, 2)>>, <<R(1), R(1)>>, <<R(0), RNorm(3, 2)>>}

IrrInputs ==
    {[costPerPassing |-> c[1],
      steadyStatePenetration |-> p,
      arpu |-> m[1],
      grossMargin |-> m[2],
      dropCostPerSub |-> c[2],
      churnRate |-> ch[1],
      reinstallCostPerChurn |-> ch[2],
      exitMultiple |-> x,
      horizonYears |-> h,
      rampYear1Factor |-> rf[1],
      rampYear2Factor |-> rf[2]] :
        c \in PassingCostChoices, p \in {R(0), RNorm(1, 2)}, m \in MarginChoices,
        ch \in ChurnChoices, x \in {0, 3}, h \in 0..MaxHorizonYears, rf \in RampChoices}

initialCapex(inputs) ==
    RAdd(R(inputs.costPerPassing), RMul(R(inputs.dropCostPerSub), inputs.steadyStatePenetration))

revPerSubYear(inputs) == R(inputs.arpu * 12)

ebitdaPerSubYear(inputs) == RMul(revPerSubYear(inputs), inputs.grossMargin)

\* a ramp that runs one year only
penetrationRampOfOneYear(inputs, y) ==
    IF y = 1
    THEN RMul(inputs.steadyStatePenetration, inputs.rampYear1Factor)
    ELSE inputs.steadyStatePenetration

penetration(inputs, y) ==
    IF y = 1
    THEN RMul(inputs.steadyStatePenetration, inputs.rampYear1Factor)
    ELSE IF y = 2
    THEN RMul(inputs.steadyStatePenetration, inputs.rampYear2Factor)
    ELSE inputs.steadyStatePenetration

ebitdaYear(inputs, y) == RMul(ebitdaPerSubYear(inputs), penetration(inputs, y))

churnCostYear(inputs, y) ==
    RMul(RMul(inputs.churnRate, R(inputs.reinstallCostPerChurn)), penetration(inputs, y))

exitValue(inputs) ==
    LET ebitdaExit ==
            RSub(RMul(ebitdaPerSubYear(inputs), inputs.steadyStatePenetration),
                 RMul(RMul(inputs.churnRate, R(inputs.reinstallCostPerChurn)),
                      inputs.steadyStatePenetration))
    IN  RMul(ebitdaExit, R(inputs.exitMultiple))

\* the cash flow of year y
cfYear(inputs, y) ==
    LET operating == RSub(ebitdaYear(inputs, y), churnCostYear(inputs, y))
    IN  IF y = inputs.horizonYears THEN RAdd(operating, exitValue(inputs)) ELSE operating

\* computeIrr(inputs) at the head of its loop over the years
ComputeCall(inputs) ==
    [pc |-> "years",
     inputs |-> inputs,
     year |-> 1,
     cashFlows |-> <<RNeg(initialCapex(inputs))>>,
     irr |-> [ret |-> "none", rate |-> FZero]]

InitCompute ==
    /\ NoDealCall
    /\ solver = NoSolver
    /\ \E inputs \in IrrInputs : compute = ComputeCall(inputs)

\* one pass of the loop over the years
YearStep ==
    /\ compute.pc = "years"
    /\ compute.year <= compute.inputs.horizonYears
    /\ compute' = [compute EXCEPT
                      !.cashFlows = Append(@, cfYear(compute.inputs, compute.year)),
                      !.year = @ + 1]
    /\ UNCHANGED <<dealVars, solver>>

\* after the loop: the IRR of the series is solved and the result returned
ComputeReturn ==
    /\ compute.pc = "years"
    /\ compute.year > compute.inputs.horizonYears
    /\ compute' = [compute EXCEPT !.pc = "done", !.irr = Irr(compute.cashFlows)]
    /\ UNCHANGED <<dealVars, solver>>

NextCompute == YearStep \/ ComputeReturn

SpecCompute == InitCompute /\ [][NextCompute]_vars

(***************************************************************************)
(* The properties                                                          *)
(***************************************************************************)
\* a month of the yearly loop of a DA-funded deal has been simulated
MonthSimulated == pc \in {"walk", "done"} /\ globalMonth > 0 /\ input.fundingSource = "da"

\* x is at least lo times the total capex and below hi times it (hi = 0: no upper end)
InTier(x, lo, hi) ==
    /\ RGe(x, RMul(totalCapex(input), lo))
    /\ hi # R(0) => RLt(x, RMul(totalCapex(input), hi))

\* C1: in a DA-funded deal the rate of every simulated month is the tier of the
\* cumulative receipts at the start of that month: 100% below 2.0x the capex,
\* 50% in [2.0x, 2.5x), 25% in [2.5x, 3.0x), 0% from 3.0x on; so the month whose
\* payment crosses a threshold still has the rate of before the crossing.
C1_RateFromCumulativeAtStart ==
    MonthSimulated =>
        /\ RLt(cumulativeAtStart, RMul(totalCapex(input), R(2))) => daPaymentRate = R(1)
        /\ InTier(cumulativeAtStart, R(2), RNorm(5, 2)) => daPaymentRate = RNorm(1, 2)
        /\ InTier(cumulativeAtStart, RNorm(5, 2), R(3)) => daPaymentRate = RNorm(1, 4)
        /\ InTier(cumulativeAtStart, R(3), R(0)) => daPaymentRate = R(0)

\* a month that starts exactly on the 2.0x threshold and crosses 2.5x at 50%
C1_Witness ==
    /\ MonthSimulated
    /\ RGt(totalCapex(input), R(0))
    /\ cumulativeAtStart = RMul(totalCapex(input), R(2))
    /\ RGe(cumulativeDaReceived, RMul(totalCapex(input), RNorm(5, 2)))
    /\ daPaymentRate = RNorm(1, 2)

\* C2: the fee of every simulated month is the base fee times the waterfall rate
\* times the lease-up multiplier of that month.
C2_FeeIsRampScaled ==
    MonthSimulated =>
        daPaymentThisMonth =
            RMul(RMul(RMul(R(input.units), input.daBulkFeePerUnitPerMonth), daPaymentRate),
                 leaseUpMultiplier)

Factor == [moic2xMonth |-> R(2), moic2_5xMonth |-> RNorm(5, 2), moic3xMonth |-> R(3)]

\* the month recorded for a threshold by the yearly loop is the first month whose
\* cumulative reached it
FirstReachedIsFirst(field) ==
    LET threshold == RMul(totalCapex(input), Factor[field])
        reached == firstReached[field]
    IN  /\ reached = null <=> RLt(cumulativeDaReceived, threshold)
        /\ reached # null => reached <= globalMonth
        /\ reached = globalMonth => globalMonth = 1 \/ RLt(cumulativeAtStart, threshold)
        /\ reached # null /\ reached < globalMonth => RGe(cumulativeAtStart, threshold)

\* C3: in a DA-funded deal each reported milestone month is the first month at
\* which the cumulative of the fees of the yearly loop (the fees summed into the
\* DA series) reached 2.0x, 2.5x, 3.0x the capex, and is null exactly when the
\* cumulative did not reach that threshold within the term.
C3_MilestonesAreFirstCrossings ==
    /\ MonthSimulated => \A field \in DOMAIN Factor : FirstReachedIsFirst(field)
    /\ pc = "done" /\ input.fundingSource = "da" =>
           /\ cumulativeDaReceived = RSum(Tail(cashFlowsDA))
           /\ \A field \in DOMAIN Factor :
                  /\ result.daWaterfall[field] = firstReached[field]
                  /\ result.daWaterfall[field] = null <=>
                         \/ globalMonth = 0
                         \/ RLt(cumulativeDaReceived,
                                RMul(totalCapex(input), Factor[field]))

\* a returned deal that reached 2.0x and 2.5x after its first year and never 3.0x
C3_Witness ==
    /\ pc = "done"
    /\ input.fundingSource = "da"
    /\ result.daWaterfall.moic2xMonth >= monthsInYear
    /\ result.daWaterfall.moic2_5xMonth > result.daWaterfall.moic2xMonth
    /\ result.daWaterfall.moic3xMonth = null

\* C4: when all three milestone months are non-null they are ordered.
C4_MilestoneOrder ==
    pc = "done" =>
        LET w == result.daWaterfall
        IN  w.moic2xMonth # null /\ w.moic2_5xMonth # null /\ w.moic3xMonth # null =>
                w.moic2xMonth <= w.moic2_5xMonth /\ w.moic2_5xMonth <= w.moic3xMonth

\* a returned deal with three different milestone months
C4_Witness ==
    /\ pc = "done"
    /\ result.daWaterfall.moic2xMonth # null
    /\ result.daWaterfall.moic2xMonth < result.daWaterfall.moic2_5xMonth
    /\ result.daWaterfall.moic2_5xMonth < result.daWaterfall.moic3xMonth

\* C5 as stated: in a DA-funded deal the average DA payment per month is never
\* greater than the base fee and is below it whenever moic2xMonth is non-null.
C5_AverageBelowBaseOnceCrossed ==
    pc = "done" /\ input.fundingSource = "da" =>
        /\ ~RGt(result.daPaymentPerMonth, result.daPaymentInitial)
        /\ result.daWaterfall.moic2xMonth # null =>
               RLt(result.daPaymentPerMonth, result.daPaymentInitial)

\* C5: in a DA-funded deal the average DA payment per month is never greater
\* than the base fee; over a term of at least a year it is below the base fee
\* when the base fee is positive and 2.0x is reached before the last month of
\* the term, and equal to the base fee otherwise.
C5_AverageBelowBaseAfterCrossing ==
    pc = "done" /\ input.fundingSource = "da" =>
        LET reduced == /\ RGt(result.daPaymentInitial, R(0))
                       /\ result.daWaterfall.moic2xMonth # null
                       /\ result.daWaterfall.moic2xMonth < input.termYears * 12
        IN  /\ ~RGt(result.daPaymentPerMonth, result.daPaymentInitial)
            /\ reduced => RLt(result.daPaymentPerMonth, result.daPaymentInitial)
            /\ ~reduced /\ input.termYears > 0 =>
                   result.daPaymentPerMonth = result.daPaymentInitial

\* a returned deal whose payments were reduced after 2.0x
C5_Witness ==
    /\ pc = "done"
    /\ input.fundingSource = "da"
    /\ RGt(result.daPaymentInitial, R(0))
    /\ result.daWaterfall.moic2xMonth # null
    /\ result.daWaterfall.moic2xMonth < input.termYears * 12
    /\ RLt(result.daPaymentPerMonth, result.daPaymentInitial)

\* every entry is at least zero, or every entry is at most zero
OneSigned(cashFlows) ==
    \/ \A k \in 1..Len(cashFlows) : ~FLt(cashFlows[k], FZero)
    \/ \A k \in 1..Len(cashFlows) : ~FGt(cashFlows[k], FZero)

\* the call went through solveIrrBisection and has returned
BisectionReturned == solver.pc = "done" /\ solver.via # "none"

\* the NPV of the series of the call at the bisection bounds and at rate zero
NpvAtLowBound == npv(solver.cashFlows, Dec(-99, 2))

NpvAtHighBound == npv(solver.cashFlows, FromInt(10))

NpvAtZeroRate == npv(solver.cashFlows, FZero)

\* C6: solveIrr returns null for every series whose entries are all at least
\* zero or all at most zero, the series of zeros included.
C6_NullForOneSignedSeries ==
    solver.fn = "solveIrr" /\ solver.pc = "done" /\ OneSigned(solver.cashFlows) =>
        solver.ret = "null"

\* C7: whenever the NPVs at -0.99 and at 10 have strictly opposite signs,
\* solveIrrBisection returns a rate.
C7_RateForEveryBracket ==
    BisectionReturned /\ FSign(NpvAtLowBound) * FSign(NpvAtHighBound) < 0 =>
        solver.ret = "rate"

\* C8: solveIrrBisection returns null whenever the NPV at -0.99 is zero or more.
C8_NullForNonNegativeLowBound ==
    BisectionReturned /\ isFinite(NpvAtLowBound) /\ FSign(NpvAtLowBound) >= 0 =>
        solver.ret = "null"

\* C9: when the NPVs at rate 0 and at rate 10 are both above zero or both below
\* zero, solveIrr returns null from its entry: the call is never at the head of
\* the Newton loop or in solveIrrBisection, and no pass of either loop is counted.
C9_NullBeforeAnyIteration ==
    solver.fn = "solveIrr" /\ FSign(NpvAtZeroRate) * FSign(NpvAtHighBound) > 0 =>
        /\ solver.pc \in {"solveIrr", "done"}
        /\ solver.i = 0 /\ solver.j = 0 /\ solver.via = "none"
        /\ solver.pc = "done" => solver.ret = "null"

\* a returned call of solveIrr on a series of both signs with both NPVs below zero
C9_Witness ==
    /\ solver.fn = "solveIrr"
    /\ solver.pc = "done"
    /\ ~OneSigned(solver.cashFlows)
    /\ FSign(NpvAtZeroRate) < 0 /\ FSign(NpvAtHighBound) < 0
    /\ solver.ret = "null"

\* C10: for a deal of no units, no term or no capex, the averages and the yield
\* of the result are finite numbers and the payback is finite or Infinity.
C10_DefinedFieldsForDegenerateInputs ==
    /\ pc = "done"
    /\ input.units = 0 \/ input.termYears = 0 \/ totalCapex(input) = R(0)
    => /\ \A field \in {"daPaymentPerMonth", "netCashFlowPerMonth",
                         "netCashFlowPerYear", "ocfYield"} : RIsFinite(result[field])
       /\ RIsFinite(result.paybackYears) \/ result.paybackYears = RInfinity

\* the sum of the yearly entries of the operating-entity series over the years of the term
AverageAnnualNetCashFlow == RDiv(RSum(Tail(cashFlowsSprocket)), R(input.termYears))

\* the sum of the four cost components times the units
TotalCapexOfInput ==
    R(input.units * (input.buildCostPerUnit + input.cpeCostPerUnit
                     + input.installCostPerUnit + input.doorFeePerUnit))

\* C11: paybackYears is totalCapex / average annual net cash flow when the
\* average is above zero and Infinity when it is zero or less; ocfYield is
\* the average / totalCapex, and 0 when totalCapex is 0.
C11_PaybackAndYield ==
    pc = "done" =>
        /\ RGt(AverageAnnualNetCashFlow, R(0)) =>
               result.paybackYears = RDiv(TotalCapexOfInput, AverageAnnualNetCashFlow)
        /\ RLe(AverageAnnualNetCashFlow, R(0)) => result.paybackYears = RInfinity
        /\ TotalCapexOfInput # R(0) =>
               result.ocfYield = RDiv(AverageAnnualNetCashFlow, TotalCapexOfInput)
        /\ TotalCapexOfInput = R(0) => result.ocfYield = R(0)

\* a returned deal with capex and a positive average: a finite payback above zero
C11_Witness ==
    /\ pc = "done"
    /\ RGt(TotalCapexOfInput, R(0))
    /\ RGt(AverageAnnualNetCashFlow, R(0))
    /\ RIsFinite(result.paybackYears) /\ RGt(result.paybackYears, R(0))
    /\ RGt(result.ocfYield, R(0))

\* C12: only a DA-funded deal pays a DA fee: in an owner-funded or internal
\* deal the fee of every month and of every year is 0, daPaymentInitial and
\* daPaymentPerMonth are 0 and the three milestone months are null; in a
\* DA-funded or internal deal grossRevenuePerMonth is units x bulkRatePerUnit.
C12_FundingModesExclusive ==
    /\ pc \in {"walk", "done"} /\ input.fundingSource \in {"owner", "internal"} =>
           /\ daPaymentThisMonth = R(0)
           /\ \A y \in 2..Len(cashFlowsDA) : cashFlowsDA[y] = R(0)
           /\ pc = "done" =>
                  /\ result.daPaymentInitial = R(0)
                  /\ result.daPaymentPerMonth = R(0)
                  /\ result.daWaterfall.moic2xMonth = null
                  /\ result.daWaterfall.moic2_5xMonth = null
                  /\ result.daWaterfall.moic3xMonth = null
                  /\ \A y \in 1..Len(result.yearlyCashFlows) :
                         result.yearlyCashFlows[y].daPayment = R(0)
    /\ pc = "done" /\ input.fundingSource \in {"da", "internal"} =>
           result.grossRevenuePerMonth = R(input.units * input.bulkRatePerUnit)

\* the level monthly payment that repays the total capex with interest in
\* termYears x 12 payments: P / n without interest, P r / (1 - (1 + r)^-n) with
\* the monthly rate r; nothing is paid on no principal or over no term
LevelPayment ==
    LET n == input.termYears * 12
        r == RDiv(input.ownerLoanInterestRate, R(12))
    IN  IF TotalCapexOfInput = R(0) \/ n = 0 THEN R(0)
        ELSE IF r = R(0) THEN RDiv(TotalCapexOfInput, R(n))
        ELSE RDiv(RMul(TotalCapexOfInput, r),
                  RSub(R(1), RDiv(R(1), RPow(RAdd(R(1), r), n))))

\* the rate per unit of an owner-funded deal, floored at zero
DiscountedRate ==
    IF input.units = 0 THEN R(input.bulkRatePerUnit)
    ELSE LET discounted == RSub(R(input.bulkRatePerUnit),
                                RDiv(LevelPayment, R(input.units)))
         IN  IF RLt(discounted, R(0)) THEN R(0) ELSE discounted

\* C13: in an owner-funded deal the revenue is computed from the rate
\* max(0, bulkRatePerUnit - loanPayment / units), loanPayment being the level
\* monthly payment on the total capex; the rate is never negative and, also
\* with no units, the revenue is a finite number.
C13_OwnerRateDiscount ==
    input.fundingSource = "owner" =>
        /\ pc \in {"walk", "done"} /\ globalMonth > 0 =>
               /\ revenueThisMonth =
                      RMul(RMul(R(input.units), DiscountedRate), leaseUpMultiplier)
               /\ RIsFinite(revenueThisMonth) /\ RGe(revenueThisMonth, R(0))
        /\ pc = "done" =>
               /\ result.grossRevenuePerMonth = RMul(R(input.units), DiscountedRate)
               /\ RIsFinite(result.grossRevenuePerMonth)
               /\ RGe(result.grossRevenuePerMonth, R(0))

\* a returned owner-funded deal with interest whose rate is discounted but above zero
C13_Witness ==
    /\ pc = "done"
    /\ input.fundingSource = "owner"
    /\ input.ownerLoanInterestRate # R(0)
    /\ RGt(LevelPayment, RDiv(TotalCapexOfInput, R(12)))
    /\ RGt(result.grossRevenuePerMonth, R(0))
    /\ RLt(result.grossRevenuePerMonth, R(input.units * input.bulkRatePerUnit))

\* the revenue of a month at the full rate
FullRevenue ==
    RMul(R(input.units),
         IF input.fundingSource = "owner" THEN DiscountedRate
         ELSE R(input.bulkRatePerUnit))

\* the input differs from inp in nothing but the lease-up months
DiffersOnlyInLeaseUp(inp) ==
    /\ inp.leaseUpMonths # input.leaseUpMonths
    /\ [inp EXCEPT !.leaseUpMonths = input.leaseUpMonths] = input

\* C14: a brownfield deal has the full revenue in every month, and its result
\* is the result of every earlier call whose input differed only in the
\* lease-up months.
C14_BrownfieldIgnoresLeaseUp ==
    input.constructionType = "brownfield" =>
        /\ pc \in {"walk", "done"} /\ globalMonth > 0 => revenueThisMonth = FullRevenue
        /\ pc = "done" =>
               \A k \in 1..Len(calls) :
                   DiffersOnlyInLeaseUp(calls[k].input) => calls[k].result = result

\* a brownfield deal with revenue, returned after the same deal with other lease-up months
C14_Witness ==
    /\ pc = "done"
    /\ input.constructionType = "brownfield"
    /\ input.termYears > 0
    /\ RGt(result.grossRevenuePerMonth, R(0))
    /\ Len(calls) = 1
    /\ DiffersOnlyInLeaseUp(calls[1].input)
    /\ calls[1].result = result

RampedRevenue(m) ==
    IF input.constructionType = "greenfield" /\ input.leaseUpMonths > 0
       /\ m <= input.leaseUpMonths
    THEN RMul(FullRevenue, RNorm(m, input.leaseUpMonths))
    ELSE FullRevenue

\* the ramped revenue of the months from m to the end of year y
RECURSIVE RampedRevenueFrom(_, _)
RampedRevenueFrom(m, y) ==
    IF m > 12 * y THEN R(0) ELSE RAdd(RampedRevenue(m), RampedRevenueFrom(m + 1, y))

\* support opex of all units plus transport opex, for twelve months
OpexOfYear ==
    R(12 * (input.units * input.supportOpexPerUnitPerMonth + input.transportOpexPerMonth))

\* C16: the operating-entity series has one entry per closed year after its
\* period-0 entry, termYears + 1 entries when it is handed to the solver; the
\* period-0 entry is -totalCapex under every funding source, and the entry of
\* year y is the ramped revenue of the year minus the DA fee of the year minus
\* twelve months of support and transport opex.
C16_SprocketSeries ==
    pc \in {"walk", "done"} =>
        /\ Len(cashFlowsSprocket) = year
        /\ pc = "done" => Len(cashFlowsSprocket) = input.termYears + 1
        /\ cashFlowsSprocket[1] = RNeg(TotalCapexOfInput)
        /\ \A y \in 1..(Len(cashFlowsSprocket) - 1) :
               cashFlowsSprocket[y + 1] =
                   RSub(RSub(RampedRevenueFrom(12 * (y - 1) + 1, y), cashFlowsDA[y + 1]),
                        OpexOfYear)

\* a returned DA-funded greenfield deal of two years with capex, revenue, fees and
\* opex, whose second year differs from the first
C16_Witness ==
    /\ pc = "done"
    /\ input.fundingSource = "da"
    /\ Len(cashFlowsSprocket) = 3
    /\ RLt(cashFlowsSprocket[1], R(0))
    /\ RGt(cashFlowsDA[2], R(0))
    /\ RGt(OpexOfYear, R(0))
    /\ RGt(RampedRevenueFrom(1, 1), R(0))
    /\ cashFlowsSprocket[2] # cashFlowsSprocket[3]

\* the DA series has one entry per closed year after its period-0 entry, and the
\* later entries are the yearly sums of the monthly DA fees
DaSeriesHoldsYearlyFees ==
    /\ Len(cashFlowsDA) = year
    /\ pc = "done" => Len(cashFlowsDA) = input.termYears + 1
    /\ cumulativeDaReceived = RAdd(RSum(Tail(cashFlowsDA)), daPaymentThisYear)
    /\ pc = "done" =>
           \A y \in 1..input.termYears :
               result.yearlyCashFlows[y].daPayment = cashFlowsDA[y + 1]

SharedFields ==
    {"capexPerUnit", "totalCapex", "grossRevenuePerMonth", "daPaymentPerMonth",
     "supportOpexPerMonth", "transportOpexPerMonth", "totalOpexPerMonth",
     "netCashFlowPerMonth", "netCashFlowPerYear", "paybackYears", "ocfYield"}

\* two IRR results are the same: both null, or the same rate
SameIrr(a, b) == a.ret = b.ret /\ (a.ret = "rate" => a.rate = b.rate)

\* the thresholds are out of reach: the fees of the whole term at the full rate stay
\* below 2.0 x totalCapex
ThresholdsUnreachable ==
    RLt(RMul(RMul(R(input.units), input.daBulkFeePerUnitPerMonth), R(12 * input.termYears)),
        RMul(TotalCapexOfInput, R(2)))

\* C18: on every input with unreachable thresholds and no lease-up, every result
\* field the flat-fee engine and the tiered engine share by name has the same value
C18_FlatEqualsTiered ==
    pc = "done" /\ input.leaseUpMonths = 0 /\ ThresholdsUnreachable =>
        /\ \A f \in SharedFields : analyzeBulkDealFlat(input)[f] = result[f]
        /\ SameIrr(analyzeBulkDealFlat(input).irr, result.irr)

(***************************************************************************)
(* Calls of analyzeBulkDeal one after another                              *)
(***************************************************************************)
\* C19: a call of analyzeBulkDeal returns what every earlier call with the same
\* input returned, whatever was called in between: nothing is kept from call to call
C19_SameInputSameResult ==
    pc = "done" =>
        \A k \in 1..Len(calls) : calls[k].input = input => calls[k].result = result

\* the third call has returned: it has the input of the first, DA fees were received
\* in every call, and the call in between had another input and another result
C19_Witness ==
    /\ pc = "done"
    /\ Len(calls) = 2
    /\ calls[1].input = input
    /\ calls[2].input # input
    /\ calls[2].result # result
    /\ input.fundingSource = "da"
    /\ RGt(cumulativeDaReceived, R(0))

(***************************************************************************)
(* The headline figures                                                    *)
(***************************************************************************)
\* the yearly figures of the result, summed over the term
SumOfYears(field) ==
    RSum([y \in 1..input.termYears |-> result.yearlyCashFlows[y][field]])

\* C20: the headline figures are means over the term: daPaymentPerMonth x termYears
\* x 12 is the sum of the yearly DA fees, netCashFlowPerYear x termYears is the sum
\* of the yearly net cash flows of the operator (periods 1..termYears), and
\* netCashFlowPerMonth is netCashFlowPerYear / 12
C20_HeadlinesAreMeans ==
    pc = "done" =>
        /\ RMul(result.daPaymentPerMonth, R(input.termYears * 12)) = SumOfYears("daPayment")
        /\ SumOfYears("daPayment") = RSum(Tail(cashFlowsDA))
        /\ RMul(result.netCashFlowPerYear, R(input.termYears)) = SumOfYears("providerCashFlow")
        /\ SumOfYears("providerCashFlow") = RSum(Tail(cashFlowsSprocket))
        /\ result.netCashFlowPerMonth = RDiv(result.netCashFlowPerYear, R(12))

(***************************************************************************)
(* computeIrr                                                              *)
(***************************************************************************)
\* the penetration of year y: the steady state scaled by the factor of year 1 or 2
PenetrationOfYear(y) ==
    LET i == compute.inputs
    IN  CASE y = 1 -> RMul(i.steadyStatePenetration, i.rampYear1Factor)
          [] y = 2 -> RMul(i.steadyStatePenetration, i.rampYear2Factor)
          [] OTHER -> i.steadyStatePenetration

\* the margin of one subscriber in a year: EBITDA less the cost of churn
MarginPerSubYear ==
    LET i == compute.inputs
    IN  RSub(RMul(R(i.arpu * 12), i.grossMargin),
             RMul(i.churnRate, R(i.reinstallCostPerChurn)))

\* the exit value: the steady-state margin times the exit multiple
ExitValueAtSteadyState ==
    RMul(RMul(MarginPerSubYear, compute.inputs.steadyStatePenetration),
         R(compute.inputs.exitMultiple))

\* C21: the series of computeIrr has horizonYears + 1 entries; entry 0 is
\* -(costPerPassing + dropCostPerSub x steadyStatePenetration); the entry of year y
\* is (arpu x 12 x grossMargin - churnRate x reinstallCostPerChurn) x the penetration
\* of year y, which is ramped in years 1 and 2; the final year, and no other year,
\* also holds the exit value at full steady-state penetration
C21_PassingSeries ==
    compute.pc \in {"years", "done"} =>
        LET i == compute.inputs
        IN  /\ Len(compute.cashFlows) = compute.year
            /\ compute.pc = "done" => Len(compute.cashFlows) = i.horizonYears + 1
            /\ compute.cashFlows[1] =
                   RNeg(RAdd(R(i.costPerPassing),
                             RMul(R(i.dropCostPerSub), i.steadyStatePenetration)))
            /\ \A y \in 1..(Len(compute.cashFlows) - 1) :
                   compute.cashFlows[y + 1] =
                       RAdd(RMul(MarginPerSubYear, PenetrationOfYear(y)),
                            IF y = i.horizonYears THEN ExitValueAtSteadyState ELSE R(0))

\* computeIrr has returned a series of five entries whose years 1, 2 and 3 differ
\* and whose final year holds an exit value
C21_Witness ==
    /\ compute.pc = "done"
    /\ compute.inputs.horizonYears = 4
    /\ ExitValueAtSteadyState # R(0)
    /\ compute.cashFlows[2] # compute.cashFlows[3]
    /\ compute.cashFlows[3] # compute.cashFlows[4]
    /\ compute.cashFlows[5] = RAdd(compute.cashFlows[4], ExitValueAtSteadyState)

(***************************************************************************)
(* Unprofitable deals                                                      *)
(***************************************************************************)
\* the deal has returned and the net cash flow of the operator was below zero in
\* every year of a term of one year or more
Unprofitable ==
    /\ pc = "done"
    /\ input.termYears >= 1
    /\ \A y \in 1..input.termYears : RLt(cashFlowsSprocket[y + 1], R(0))

\* C22: an unprofitable deal reports a negative netCashFlowPerMonth, an infinite
\* paybackYears and a null sprocketIrr
C22_UnprofitableDeal ==
    Unprofitable =>
        /\ RLt(result.netCashFlowPerMonth, R(0))
        /\ result.paybackYears = RInfinity
        /\ result.sprocketIrr.ret = "null"

\* an unprofitable DA-funded deal of two years with capex, a fee and a lease-up ramp
C22_Witness ==
    /\ Unprofitable
    /\ input.termYears = 2
    /\ input.fundingSource = "da"
    /\ RGt(TotalCapexOfInput, R(0))
    /\ RGt(cumulativeDaReceived, R(0))
    /\ cashFlowsSprocket[2] # cashFlowsSprocket[3]

(***************************************************************************)
(* Capex                                                                   *)
(***************************************************************************)
\* the deal of the engine's test: 219 units at 350 + 230 + 50 + 0 a unit
LarkspurCosts ==
    [units |-> 219, buildCostPerUnit |-> 350, cpeCostPerUnit |-> 230,
     installCostPerUnit |-> 50, doorFeePerUnit |-> 0]

\* C23: capexPerUnit is the sum of the build, CPE, install and door cost per unit
\* and totalCapex is units x capexPerUnit, whatever the funding source, the
\* construction type and the term; for the Larkspur deal they are 630 and 137,970
C23_CapexSums ==
    /\ pc = "done" =>
           /\ result.capexPerUnit = input.buildCostPerUnit + input.cpeCostPerUnit
                                        + input.installCostPerUnit + input.doorFeePerUnit
           /\ result.totalCapex = R(input.units * result.capexPerUnit)
    /\ pc \in {"walk", "done"} =>
           /\ capexPerUnit(LarkspurCosts) = 630
           /\ totalCapex(LarkspurCosts) = R(137970)

\* an owner-funded greenfield deal of two units with a CPE, an install and a door
\* cost has returned
C23_Witness ==
    /\ pc = "done"
    /\ input.fundingSource = "owner"
    /\ input.constructionType = "greenfield"
    /\ input.units = 2
    /\ input.doorFeePerUnit > 0
    /\ input.cpeCostPerUnit > 0
    /\ result.totalCapex = R(6)

(***************************************************************************)
(* The solver: termination, phases and domain                              *)
(***************************************************************************)
\* the most steps a call of the solver can still take: the passes left in the
\* loop it is in, and the entry and the 100 passes of the bisection after it
StepsLeft(s) ==
    CASE s.pc = "solveIrr" -> 1 + 100 + 1 + 100
      [] s.pc = "newton" -> (100 - s.i) + 1 + 100
      [] s.pc = "solveIrrBisection" -> 1 + 100
      [] s.pc = "bisect" -> 100 - s.j
      [] OTHER -> 0

\* C24: every call of the solver returns, a rate or null, after at most 100 passes
\* of the Newton loop
\* and at most 100 passes of the bisection loop: the call is at a position that has
\* a next step or has returned, the loop counters stay within 100, and every step
\* lowers the number of steps the call can still take
C24_SolverTerminates ==
    /\ [](/\ solver.pc \in {"solveIrr", "newton", "solveIrrBisection", "bisect", "done"}
          /\ solver.i <= 100
          /\ solver.j <= 100
          /\ StepsLeft(solver) >= 0
          /\ solver.pc = "done" => solver.ret \in {"null", "rate"})
    /\ [][StepsLeft(solver') < StepsLeft(solver)]_vars

\* solveIrr has returned after all 100 Newton passes and some bisection passes
C24_Witness ==
    /\ solver.pc = "done"
    /\ solver.fn = "solveIrr"
    /\ solver.i = 100
    /\ solver.j > 0
    /\ solver.ret = "rate"

\* the locals of the pass of the Newton loop the solver is about to run
NewtonDerivative == npvDerivative(solver.cashFlows, solver.rate)

NewtonNewRate ==
    FSub(solver.rate, FDiv(npv(solver.cashFlows, solver.rate), NewtonDerivative))

NewtonFlat == FLt(FAbs(NewtonDerivative), Dec(1, 10))

NewtonConverged == FLt(FAbs(FSub(NewtonNewRate, solver.rate)), Dec(1, 6))

NewtonOutOfRange ==
    \/ FGt(FAbs(NewtonNewRate), FromInt(10))
    \/ NewtonNewRate.k # "fin"

\* one step of a call of solveIrr keeps the order of the phases
PhaseStep ==
    solver.fn = "solveIrr" =>
        /\ solver.pc = "solveIrr" =>
               \/ solver'.pc = "done" /\ solver'.ret = "null"
               \/ /\ solver'.pc = "newton"
                  /\ solver'.i = 0
                  /\ solver'.rate = IF FLt(NpvAtZeroRate, FZero) THEN Dec(-5, 1) ELSE Dec(1, 1)
        /\ solver'.pc = "solveIrrBisection" => solver.pc = "newton"
        /\ solver.pc = "newton" =>
               /\ solver'.pc = "solveIrrBisection" <=>
                      \/ NewtonFlat
                      \/ ~NewtonConverged /\ (NewtonOutOfRange \/ solver.i + 1 = 100)
               /\ solver'.pc = "done" <=> ~NewtonFlat /\ NewtonConverged
               /\ solver'.pc = "done" => solver'.ret = "rate" /\ solver'.result = NewtonNewRate
               /\ solver'.pc \in {"newton", "solveIrrBisection", "done"}
        /\ solver.pc \in {"solveIrrBisection", "bisect"} => solver'.pc \in {"bisect", "done"}
        /\ solver'.pc = "done" /\ solver'.ret = "null" =>
               solver.pc \in {"solveIrr", "solveIrrBisection", "bisect"}

\* C25: the phases of solveIrr run in a fixed order: the Newton loop starts at 0.1,
\* or at -0.5 when NPV(0) < 0; bisection is entered from the Newton loop only, and
\* exactly when the derivative is below 1e-10 in magnitude, or the new rate is above
\* 10 in magnitude or not finite, or the 100th pass ends without convergence; a
\* converged Newton pass returns its new rate without bisection; null comes from the
\* pre-check or from bisection only
C25_PhasesInOrder == [][PhaseStep]_vars

\* solveIrr has returned a rate from bisection, which it entered because the Newton
\* loop diverged after some passes
C25_Witness ==
    /\ solver.pc = "done"
    /\ solver.fn = "solveIrr"
    /\ solver.via = "diverged"
    /\ solver.i > 0
    /\ solver.j > 0
    /\ solver.ret = "rate"

\* C26: every rate solveIrr returns, from the Newton loop or from bisection, lies in
\* the searched domain: above -1 and not above 10
C26_RateInsideDomain ==
    solver.pc = "done" /\ solver.fn = "solveIrr" /\ solver.ret = "rate" =>
        /\ FGt(solver.result, FromInt(-1))
        /\ ~FGt(solver.result, FromInt(10))

(***************************************************************************)
(* The IRR of the capital provider without capital                         *)
(***************************************************************************)
\* C27: for an owner-funded or internal deal, in which the capital provider
\* receives no fee in any period, the irr of the result is null, not a rate
C27_NullIrrWithoutDaCapital ==
    pc = "done" /\ input.fundingSource # "da" => result.irr.ret = "null"

(***************************************************************************)
(* The waterfall over the months                                           *)
(***************************************************************************)
\* the base fee of a month: units x the fee per unit
BaseFeeOfInput == RMul(R(input.units), input.daBulkFeePerUnitPerMonth)

\* the cap of the receipts: 3.0 x totalCapex and the base fee of one month
ReceiptsCap == RAdd(RMul(TotalCapexOfInput, R(3)), BaseFeeOfInput)

\* once the receipts have reached 3.0 x totalCapex the fee of the month is 0 and the
\* receipts stay as they are
ReceiptsRestAtThreeTimes ==
    RGe(cumulativeAtStart, RMul(TotalCapexOfInput, R(3))) =>
        /\ daPaymentThisMonth = R(0)
        /\ cumulativeDaReceived = cumulativeAtStart

\* C28 as stated: in a DA-funded deal the receipts are, after every month, below
\* 3.0 x totalCapex plus the base fee of one month, and from the month at which
\* they reach 3.0 x totalCapex every fee is 0 and they change no more
C28_ReceiptsBelowCap ==
    MonthSimulated =>
        /\ RLt(cumulativeDaReceived, ReceiptsCap)
        /\ ReceiptsRestAtThreeTimes

\* C28: as above, but when totalCapex and the base fee are both 0 the receipts are
\* 0, equal to the cap and not below it
C28_ReceiptsWithinCap ==
    MonthSimulated =>
        /\ IF ReceiptsCap = R(0)
           THEN cumulativeDaReceived = R(0)
           ELSE RLt(cumulativeDaReceived, ReceiptsCap)
        /\ ReceiptsRestAtThreeTimes

\* a month that began with receipts of 3.0 x totalCapex or more, above zero, and
\* left them above 3.0 x totalCapex: the last fee overshot the threshold
C28_Witness ==
    /\ MonthSimulated
    /\ RGt(TotalCapexOfInput, R(0))
    /\ RGe(cumulativeAtStart, RMul(TotalCapexOfInput, R(3)))
    /\ RGt(cumulativeDaReceived, RMul(TotalCapexOfInput, R(3)))
    /\ daPaymentThisMonth = R(0)

\* from one simulated month of a DA-funded deal to the next the payment rate is one
\* of the four tiers and does not rise
RateStep ==
    MonthSimulated /\ globalMonth' = globalMonth + 1 =>
        /\ daPaymentRate' \in {R(1), RNorm(1, 2), RNorm(1, 4), R(0)}
        /\ RLe(daPaymentRate', daPaymentRate)

\* C29: within one simulation of a DA-funded deal the payment rate never rises from
\* a month to the next: it moves along 100%, 50%, 25%, 0%, at times past a tier, and
\* never back
C29_RateNeverRises == [][RateStep]_vars

\* the second month of a deal with capex is at 0%: the fee of the first month, at
\* 100%, crossed all three thresholds
C29_Witness ==
    /\ MonthSimulated
    /\ globalMonth = 2
    /\ RGt(TotalCapexOfInput, R(0))
    /\ cumulativeAtStart = BaseFeeOfInput
    /\ daPaymentRate = R(0)

(***************************************************************************)
(* The loop of solveIrrBisection                                           *)
(***************************************************************************)
\* the width of the bracket of the bisection
BracketWidth(s) == FSub(s.high, s.low)

\* 10.99 halved j times
RECURSIVE HalvedWidth(_)
HalvedWidth(j) == IF j = 0 THEN Dec(1099, 2) ELSE FDiv(HalvedWidth(j - 1), FromInt(2))

\* a and b differ by less than 1e-6
Near(a, b) == FLt(FAbs(FSub(a, b)), Dec(1, 6))

\* C30: once solveIrrBisection is in its loop it returns a rate within [-0.99, 10]:
\* the bracket starts at a width of 10.99 and halves in every pass with low <= high,
\* so the test of the width ends the loop in the 24th pass at the latest and the
\* return null after 100 passes is never reached
C30_BisectionLoopReturnsRate ==
    /\ solver.pc = "bisect" =>
           /\ solver.j <= 23
           /\ ~FGt(solver.low, solver.high)
           /\ Near(BracketWidth(solver), HalvedWidth(solver.j))
           /\ solver.j = 0 => BracketWidth(solver) = Dec(1099, 2)
    /\ solver.pc = "done" /\ solver.j >= 1 =>
           /\ solver.j <= 24
           /\ solver.ret = "rate"
           /\ ~FLt(solver.result, Dec(-99, 2))
           /\ ~FGt(solver.result, FromInt(10))

\* the loop of solveIrrBisection has returned a rate in its 24th pass
C30_Witness ==
    /\ solver.pc = "done"
    /\ solver.j = 24
    /\ solver.ret = "rate"

====
